---------------------------- MODULE Spec2Model ----------------------------
(***************************************************************************)
(* Ricecast: MPEG stream framing and segmenting (ricecast/mpeg.py), and the *)
(* retention of segment files by the recorder (ricecast/source.py).        *)
(*                                                                         *)
(* A byte is an integer 0..255 and a byte string is a sequence of bytes.   *)
(* Python's None is the record None.  A header is a record with the fields *)
(* of the MPEGHeader namedtuple, a frame a record [header, data].          *)
(*                                                                         *)
(* Durations: the code computes 1152 / (samplingrate / 1000.0) as a float  *)
(* of milliseconds.  For the nine sampling rates of MPEG_SAMPLINGRATE the  *)
(* exact value is a multiple of 1/49 ms, so every duration (a header's,    *)
(* the Segmenter's budget and running total) is held here as the integer   *)
(* number of 1/49 ms units (DurScale units per millisecond).               *)
(***************************************************************************)
EXTENDS Integers, Sequences, FiniteSets, TLC

VARIABLES
    hin,            \* the byte string handed to MPEGHeader.parse (header specification)
    hout,           \* what MPEGHeader.parse returned for hin (None before the call)
    stream,         \* the bytes the source delivers, in order
    pos,            \* how many bytes of stream have been fed so far
    duration,       \* Segmenter.duration: the budget
    framer,         \* Segmenter.framer: [buf, frames, last_frame]
    buf,            \* Segmenter.buf
    buf_duration,   \* Segmenter.buf_duration
    op,             \* the last call made: "init", "feed", "done" or "parse"
    ncalls,         \* number of Segmenter.feed calls made so far, capped at 2
    ndone,          \* number of Segmenter.done calls made so far
    nafter,         \* number of Segmenter.feed calls made after a done call
    returned,       \* all frames Framer.feed has returned so far, in return order
    lastret,        \* the list returned by the last Framer.feed call
    depth,          \* nesting depth of Framer.feed reached in the last call
    raised,         \* whether the last Framer.feed call raised instead of returning
    completed,      \* every segment completed (segment = self.buf) so far, in order
    ncompleted,     \* how many of them were completed during the last feed call
    segs,           \* every non-empty segment returned to the caller so far
    lastseg,        \* the value returned by the last Segmenter.feed / done call
    first,          \* Source.first: number of the oldest segment kept
    last,           \* Source.last: number of the segment being received
    files,          \* the numbers of the segment files present in output_dir
    entry,          \* the manifest as last written (None before the first write)
    window,         \* the window handed to Source.record
    connected,      \* whether the source connection is up
    nclosed         \* how often the source has closed the connection so far

vars == <<hin, hout, stream, pos, duration, framer, buf, buf_duration, op, ncalls, ndone, nafter,
          returned, lastret, depth, raised, completed, ncompleted, segs, lastseg,
          first, last, files, entry, window, connected, nclosed>>

\* the variables of the Source
srcvars == <<first, last, files, entry, window, connected, nclosed>>

None == [none |-> TRUE]

(***************************************************************************)
(* MPEGHeader.parse                                                        *)
(***************************************************************************)
DurScale == 49

BITRATE_V1L1 == <<0, 32, 64, 96, 128, 160, 192, 224, 256, 288, 320, 352, 384, 416, 448>>
BITRATE_V1L2 == <<0, 32, 48, 56, 64, 80, 96, 112, 128, 160, 192, 224, 256, 320, 384>>
BITRATE_V1L3 == <<0, 32, 40, 48, 56, 64, 80, 96, 112, 128, 160, 192, 224, 256, 320>>
BITRATE_V2L1 == <<0, 32, 48, 56, 64, 80, 96, 112, 128, 144, 160, 176, 192, 224, 256>>
BITRATE_V2L2 == <<0, 8, 16, 24, 32, 40, 48, 56, 64, 80, 96, 112, 128, 144, 160>>
BITRATE_V2L3 == BITRATE_V2L2

\* indexed by version_index + 1, then layer_index + 1, then bitrate_index + 1
MPEG_BITRATE ==
    << <<None, BITRATE_V2L3, BITRATE_V2L2, BITRATE_V2L1>>,
       None,
       <<None, BITRATE_V2L3, BITRATE_V2L2, BITRATE_V2L1>>,
       <<None, BITRATE_V1L3, BITRATE_V1L2, BITRATE_V1L1>> >>

\* indexed by version_index + 1, then samplingrate_index + 1
MPEG_SAMPLINGRATE ==
    << <<11025, 12000, 8000>>,
       None,
       <<22050, 24000, 16000>>,
       <<44100, 48000, 32000>> >>

RECURSIVE Pow2(_)
Pow2(n) == IF n = 0 THEN 1 ELSE 2 * Pow2(n - 1)

\* struct.unpack('!I', header)[0], defined for exactly 4 bytes: the 32-bit
\* unsigned big-endian integer, held as its two 16-bit halves
Unpack(header) == [hi |-> header[1] * 256 + header[2], lo |-> header[3] * 256 + header[4]]

\* I >> n, for n >= 16
Shr(I, n) == I.hi \div Pow2(n - 16)

\* (I >> n) & (2^w - 1), for a field that lies within one half
Bits(I, n, w) ==
    IF n >= 16 THEN (I.hi \div Pow2(n - 16)) % Pow2(w)
    ELSE (I.lo \div Pow2(n)) % Pow2(w)

VersionName(version_index) == <<"MPEG-2.5", None, "MPEG-2", "MPEG-1">>[version_index + 1]
LayerName(layer_index) == <<None, "III", "II", "I">>[layer_index + 1]
ModeName(mode_index) == <<"Stereo", "Joint", "Dual", "Single">>[mode_index + 1]
EmphasisName(emphasis) == <<"", "50/15 ms", None, "CCIT J.17">>[emphasis + 1]

\* the test the code makes to select the Layer I formula: the layer NAME
\* ('I', 'II', 'III') is compared with the integer 0b11, which is never equal
IsLayerI(layer) == FALSE

\* the two branches of the frame length / duration computation
FrameLength(layer, bitrate, samplingrate, padding) ==
    IF IsLayerI(layer)
    THEN ((12 * bitrate * 1000) \div samplingrate + padding) * 8
    ELSE (144 * bitrate * 1000) \div samplingrate + padding

FrameDuration(layer, samplingrate) ==
    IF IsLayerI(layer)
    THEN (384 * 1000 * DurScale) \div samplingrate
    ELSE (1152 * 1000 * DurScale) \div samplingrate

SyncOk(I) == Shr(I, 21) = 2047
VersionOk(version_index) == version_index # 1
LayerOk(layer_index) == layer_index # 0
BitrateOk(bitrate_index) == bitrate_index # 15
SamplingOk(samplingrate_index) == samplingrate_index # 3
\* a parse that accepts every emphasis field
NoEmphasisCheck(emphasis) == TRUE

EmphasisOk(emphasis) == emphasis # 2
\* a parse that accepts every frame length
AnyLength(frame_length) == TRUE

LengthOk(frame_length) == frame_length # 0

parse(header) ==
    IF Len(header) # 4 THEN None                       \* struct.error
    ELSE
    LET I == Unpack(header)
        version_index == Bits(I, 19, 2)
        layer_index == Bits(I, 17, 2)
        bitrate_index == Bits(I, 12, 4)
        samplingrate_index == Bits(I, 10, 2)
        padding == Bits(I, 9, 1)
        emphasis == Bits(I, 0, 2)
    IN  IF ~SyncOk(I) THEN None
        ELSE IF ~VersionOk(version_index) THEN None
        ELSE IF ~LayerOk(layer_index) THEN None
        ELSE IF ~BitrateOk(bitrate_index) THEN None
        ELSE IF ~SamplingOk(samplingrate_index) THEN None
        ELSE
        LET layer == LayerName(layer_index)
            bitrate == MPEG_BITRATE[version_index + 1][layer_index + 1][bitrate_index + 1]
            samplingrate == MPEG_SAMPLINGRATE[version_index + 1][samplingrate_index + 1]
            frame_length == FrameLength(layer, bitrate, samplingrate, padding)
        IN  IF ~LengthOk(frame_length) THEN None
            ELSE IF ~EmphasisOk(emphasis) THEN None
            ELSE [version |-> VersionName(version_index),
                  layer |-> layer,
                  nocrc |-> Bits(I, 16, 1),
                  bitrate |-> bitrate,
                  samplingrate |-> samplingrate,
                  padding |-> padding,
                  private |-> Bits(I, 8, 1),
                  mode |-> ModeName(Bits(I, 6, 2)),
                  ext |-> Bits(I, 4, 2),
                  copyright |-> Bits(I, 3, 1),
                  original |-> Bits(I, 2, 1),
                  emphasis |-> EmphasisName(emphasis),
                  duration |-> FrameDuration(layer, samplingrate),
                  length |-> frame_length]


(***************************************************************************)
(* Byte strings                                                            *)
(***************************************************************************)
\* chunk[a:b] for 0 <= a, with Python's clamping of b to len(chunk)
Slice(chunk, a, b) == SubSeq(chunk, a + 1, IF b < Len(chunk) THEN b ELSE Len(chunk))

\* chunk[a:]
From(chunk, a) == SubSeq(chunk, a + 1, Len(chunk))

\* chunk.find('\xff', start): the first index >= start holding 0xFF, or -1
Find(chunk, start) ==
    LET at(i) == chunk[i + 1] = 255
        range == start..(Len(chunk) - 1)
    IN  IF \E i \in range : at(i)
        THEN CHOOSE i \in range : at(i) /\ \A j \in start..(i - 1) : ~at(j)
        ELSE -1

(***************************************************************************)
(* Framer: self is the record [buf, frames, last_frame]                    *)
(***************************************************************************)
MPEGFrame(header, data) == [header |-> header, data |-> data]

NewFramer == [buf |-> <<>>, frames |-> <<>>, last_frame |-> None]

\* a feed_last_frame that takes the pending frame as complete only when bytes
\* are left over after it
feed_last_frame_late(self, chunk) ==
    IF self.last_frame # None /\ Len(chunk) > 0
    THEN LET r == self.last_frame.header.length - Len(self.last_frame.data)
         IN  IF r < Len(chunk)
             THEN LET done == [self.last_frame EXCEPT !.data = @ \o Slice(chunk, 0, r)]
                  IN  [self |-> [self EXCEPT !.frames = Append(@, done),
                                             !.last_frame = None],
                       chunk |-> From(chunk, r)]
             ELSE [self |-> [self EXCEPT !.last_frame.data = @ \o chunk],
                   chunk |-> <<>>]
    ELSE [self |-> self, chunk |-> chunk]

\* returns the chunk left over, and self as the call leaves it
feed_last_frame(self, chunk) ==
    IF self.last_frame # None /\ Len(chunk) > 0
    THEN LET r == self.last_frame.header.length - Len(self.last_frame.data)
         IN  IF r <= Len(chunk)
             THEN LET done == [self.last_frame EXCEPT !.data = @ \o Slice(chunk, 0, r)]
                  IN  [self |-> [self EXCEPT !.frames = Append(@, done),
                                             !.last_frame = None],
                       chunk |-> From(chunk, r)]
             ELSE [self |-> [self EXCEPT !.last_frame.data = @ \o chunk],
                   chunk |-> <<>>]
    ELSE [self |-> self, chunk |-> chunk]

\* where the rest of the stream starts after the complete frame found at i
RestAfter(chunk, i, header) == From(chunk, i + header.length)

\* the scan from 0xFF position i (-1: no 0xFF left).  res is None (the loop
\* ran out), or the tuple (garbage, frame, rest)
RECURSIVE parse_frame_scan(_, _, _)
parse_frame_scan(self, chunk, i) ==
    IF i = -1 THEN [self |-> self, res |-> None]
    ELSE LET header == parse(Slice(chunk, i, i + 4))
         IN  IF header = None
             THEN parse_frame_scan(self, chunk, Find(chunk, i + 1))
             ELSE LET garbage == Slice(chunk, 0, i)
                  IN  IF Len(From(chunk, i)) >= header.length
                      THEN [self |-> self,
                            res |-> [garbage |-> garbage,
                                     frame |-> MPEGFrame(header, Slice(chunk, i, i + header.length)),
                                     rest |-> RestAfter(chunk, i, header)]]
                      ELSE [self |-> [self EXCEPT !.last_frame = MPEGFrame(header, From(chunk, i))],
                            res |-> [garbage |-> garbage, frame |-> None, rest |-> None]]

parse_frame(self, chunk) == parse_frame_scan(self, chunk, Find(chunk, 0))

\* an early return that hands back the queued frames and leaves them queued
ShortReturnKeep(self) == self.frames

\* what the early return of feed (fewer than 4 bytes at hand) hands back
ShortReturn(self) == <<>>

\* what becomes of the bytes of a chunk in which no header was found
GarbageLeftover(chunk) == <<>>

\* the interpreter's limit on nested calls (sys.getrecursionlimit(), which the
\* program never changes): a feed call nested deeper cannot be made.  The
\* frames of the callers of the outermost feed count against the limit too,
\* so the real call fails somewhat earlier
RecursionLimit == 1000

\* One invocation of Framer.feed, up to its return or its nested call.  c is
\* [self, chunk, depth, status, ret]: the call to run (status "call") with its
\* nesting depth; the result has status "call" (the nested self.feed(rest),
\* chunk being rest), "return" (ret is the list returned, passed up unchanged
\* by every caller) or "raise" (the nested call exceeds the limit)
feed_level(c) ==
    LET a == feed_last_frame(c.self, c.chunk)
    IN  IF Len(a.self.buf) + Len(a.chunk) < 4
        THEN [c EXCEPT !.self = [a.self EXCEPT !.buf = @ \o a.chunk],
                       !.chunk = <<>>,
                       !.status = "return",
                       !.ret = ShortReturn(a.self)]
        ELSE LET p == parse_frame([a.self EXCEPT !.buf = <<>>], a.self.buf \o a.chunk)
             IN  IF p.res # None /\ p.res.frame # None
                 THEN [c EXCEPT !.self = [p.self EXCEPT !.frames = Append(@, p.res.frame)],
                                !.chunk = p.res.rest,
                                !.status = IF c.depth + 1 > RecursionLimit
                                           THEN "raise" ELSE "call",
                                !.depth = IF c.depth + 1 > RecursionLimit
                                          THEN c.depth ELSE c.depth + 1]
                 ELSE [c EXCEPT !.self = [p.self EXCEPT
                                            !.frames = <<>>,
                                            !.buf = IF p.res = None
                                                    THEN GarbageLeftover(a.self.buf \o a.chunk)
                                                    ELSE @],
                                !.chunk = <<>>,
                                !.status = "return",
                                !.ret = p.self.frames]

\* up to n invocations in a row, each the nested call of the one before.  The
\* nested call is the last thing feed does, so the run of calls is a loop; it
\* is halved rather than unrolled one by one to keep the evaluation shallow
RECURSIVE feed_levels(_, _)
feed_levels(c, n) ==
    IF c.status # "call" THEN c
    ELSE IF n <= 1 THEN feed_level(c)
    ELSE LET half == feed_levels(c, n \div 2)
         IN  feed_levels(half, n - n \div 2)

\* Framer.feed(chunk): self as the call leaves it, the list returned (ret), the
\* deepest nesting reached (depth) and whether it returned or raised (status).
\* Every nested call but the last consumes at least one byte of buf + chunk
feed(self, chunk) ==
    feed_levels([self |-> self, chunk |-> chunk, depth |-> 1, status |-> "call",
                 ret |-> <<>>],
                Len(self.buf) + Len(chunk) + 1)

(***************************************************************************)
(* Segmenter                                                               *)
(***************************************************************************)
\* a test that ends the segment only once the running total has passed the budget
OverflowsLate(bd, frame, budget) == bd > budget

\* the test that ends the current segment when `frame` arrives
Overflows(bd, frame, budget) == bd + frame.header.duration > budget

\* the accumulation the frame that ended a segment leaves behind
AfterSegment(frame) == [buf |-> <<>>, buf_duration |-> 0]

\* the value the loop leaves in `segment` when a further segment is completed
Surface(segment, ready) == ready

\* one iteration of the for loop of Segmenter.feed, for frame = frames[st.i].
\* st is [i, buf, buf_duration, segment] and, for the record, done: the
\* segments completed so far in this call
feed_iteration(st, frame, budget) ==
    IF Overflows(st.buf_duration, frame, budget)
    THEN [i |-> st.i + 1,
          buf |-> AfterSegment(frame).buf,
          buf_duration |-> AfterSegment(frame).buf_duration,
          segment |-> Surface(st.segment, st.buf),
          done |-> Append(st.done, st.buf)]
    ELSE [st EXCEPT !.i = @ + 1,
                    !.buf = Append(@, frame),
                    !.buf_duration = @ + frame.header.duration]

\* up to n iterations in a row, from frames[st.i] on (halved, as feed_levels is)
RECURSIVE feed_iterations(_, _, _, _)
feed_iterations(frames, st, n, budget) ==
    IF st.i > Len(frames) THEN st
    ELSE IF n <= 1 THEN feed_iteration(st, frames[st.i], budget)
    ELSE LET half == feed_iterations(frames, st, n \div 2, budget)
         IN  feed_iterations(frames, half, n - n \div 2, budget)

\* the for loop of Segmenter.feed over frames, entered with self.buf = self_buf
\* and self.buf_duration = bd
feed_loop(frames, self_buf, bd, budget) ==
    feed_iterations(frames,
                    [i |-> 1, buf |-> self_buf, buf_duration |-> bd,
                     segment |-> <<>>, done |-> <<>>],
                    Len(frames), budget)

\* a done() that returns the accumulated frames alone
DoneWithoutPartial(self_buf, last_frame) == self_buf

\* the segment Segmenter.done returns
DoneSegment(self_buf, last_frame) ==
    IF last_frame # None THEN self_buf \o <<last_frame>> ELSE self_buf


(***************************************************************************)
(* The streams fed to the Segmenter, and the budgets                       *)
(***************************************************************************)
MaxFrames == 3          \* frames in a stream of consecutive valid frames
MaxSegFrames == 5       \* frames in a stream of the segmenting specification
MaxSmallChunk == 4      \* chunks of 1..MaxSmallChunk bytes are tried at every position
MaxDone == 1            \* Segmenter.done calls in one run
MaxAfterDone == 1       \* Segmenter.feed calls after a done call

\* MPEG-2 Layer III, 8 kbps: 24000 Hz (48 bytes, 48 ms), the same padded
\* (49 bytes), and 16000 Hz (72 bytes, 72 ms)
HdrA == <<255, 243, 20, 0>>
HdrP == <<255, 243, 22, 0>>
HdrB == <<255, 243, 24, 0>>

\* payload bytes: zeros with one 0xFF that starts no header
PayloadByte(i) == IF i = 7 THEN 255 ELSE 0

\* H followed by length(H) - 4 payload bytes
Frame(H) == H \o [i \in 1..(parse(H).length - 4) |-> PayloadByte(i)]

RECURSIVE Cat(_)
Cat(ss) == IF ss = <<>> THEN <<>> ELSE Head(ss) \o Cat(Tail(ss))

Repeat(s, k) == Cat([i \in 1..k |-> s])

\* streams of consecutive valid frames, with or without the next frame's header
FrameStreams ==
    {Repeat(Frame(HdrA), k) : k \in 1..MaxFrames} \cup {Frame(HdrA) \o Frame(HdrP)}

HeadedStreams == {s \o HdrA : s \in FrameStreams}

\* a well-formed header but for its frame length, 0: bitrate index 0000, no padding
ZeroLengthHeader == <<255, 243, 4, 0>>

\* runs of bytes that start no valid header, also when F2's header follows them
Garbage ==
    {<<0>>, <<0, 0>>, <<255, 0, 0>>, <<0, 0, 0, 0, 0>>, <<0, 255, 255, 1, 255, 243, 241, 0>>,
     ZeroLengthHeader}

WithGarbage(g) == Frame(HdrA) \o g \o Frame(HdrA) \o HdrA

GarbageStreams == {WithGarbage(g) : g \in Garbage}

Streams == FrameStreams \cup HeadedStreams \cup GarbageStreams

\* streams of the segmenting specification: equal frames, and frames of two durations
SegStreams ==
    {Repeat(Frame(HdrA), k) \o HdrA : k \in 1..MaxSegFrames}
    \cup {Frame(HdrB) \o Frame(HdrA) \o Frame(HdrB) \o Frame(HdrA) \o HdrA}

\* budgets in milliseconds
BudgetsMs == {0, 60, 96, 150}

LargeChunks == {44, 48, 52, 96, 100}

ChunkLens(rem) == {n \in (1..MaxSmallChunk) \cup LargeChunks \cup {rem} : n >= 1 /\ n <= rem}

SegChunkLens(rem) ==
    {n \in {4, 24, rem} \cup {48 * k : k \in 1..MaxSegFrames} : n >= 1 /\ n <= rem}

(***************************************************************************)
(* The state machine: a Segmenter fed the stream chunk by chunk            *)
(***************************************************************************)
\* a Source that has been constructed and is not recording
SourceIdle ==
    /\ first = 0
    /\ last = 0
    /\ files = {}
    /\ entry = None
    /\ window = 1
    /\ connected = FALSE
    /\ nclosed = 0

InitWith(streams, budgets) ==
    /\ SourceIdle
    /\ hin = <<>>
    /\ hout = None
    /\ stream \in streams
    /\ pos = 0
    /\ duration \in {ms * DurScale : ms \in budgets}
    /\ framer = NewFramer
    /\ buf = <<>>
    /\ buf_duration = 0
    /\ op = "init"
    /\ ncalls = 0
    /\ ndone = 0
    /\ nafter = 0
    /\ returned = <<>>
    /\ lastret = <<>>
    /\ depth = 0
    /\ raised = FALSE
    /\ completed = <<>>
    /\ ncompleted = 0
    /\ segs = <<>>
    /\ lastseg = <<>>

\* Segmenter.feed(chunk), chunk being the next n bytes of the stream: f is
\* what self.framer.feed(chunk) does, st the for loop over the frames it
\* returned.  When Framer.feed raises, the exception leaves Segmenter.feed
\* before its loop
Feed(n) ==
    /\ ~raised
    /\ pos + n <= Len(stream)
    /\ ndone = 0 \/ nafter < MaxAfterDone
    /\ \E f \in {feed(framer, SubSeq(stream, pos + 1, pos + n))} :
       \E frames \in {IF f.status = "raise" THEN <<>> ELSE f.ret} :
       \E st \in {feed_loop(frames, buf, buf_duration, duration)} :
           /\ framer' = f.self
           /\ raised' = (f.status = "raise")
           /\ buf' = st.buf
           /\ buf_duration' = st.buf_duration
           /\ returned' = returned \o frames
           /\ lastret' = frames
           /\ depth' = f.depth
           /\ completed' = completed \o st.done
           /\ ncompleted' = Len(st.done)
           /\ lastseg' = st.segment
           /\ segs' = IF st.segment # <<>> THEN Append(segs, st.segment) ELSE segs
    /\ pos' = pos + n
    /\ op' = "feed"
    /\ ncalls' = IF ncalls < 2 THEN ncalls + 1 ELSE 2
    /\ nafter' = IF ndone > 0 THEN nafter + 1 ELSE nafter
    /\ UNCHANGED <<hin, hout, stream, duration, ndone>>
    /\ UNCHANGED srcvars

\* Segmenter.done()
Done ==
    /\ ~raised
    /\ ndone < MaxDone
    /\ LET segment == DoneSegment(buf, framer.last_frame)
       IN  /\ lastseg' = segment
           /\ segs' = IF segment # <<>> THEN Append(segs, segment) ELSE segs
    /\ buf' = <<>>
    /\ op' = "done"
    /\ ndone' = ndone + 1
    /\ UNCHANGED <<hin, hout, stream, pos, duration, framer, buf_duration, ncalls,
                   nafter, returned, lastret, depth, raised, completed, ncompleted>>
    /\ UNCHANGED srcvars

FeedStep == \E n \in ChunkLens(Len(stream) - pos) : Feed(n)

SegFeedStep == \E n \in SegChunkLens(Len(stream) - pos) : Feed(n)

\* framing: every stream, split at any point, under one budget
Init == InitWith(Streams, {60})

Next == FeedStep \/ Done

Spec == Init /\ [][Next]_vars

\* segmenting: streams of whole frames, split coarsely, under every budget
InitSeg == InitWith(SegStreams, BudgetsMs)

NextSeg == SegFeedStep \/ Done

SpecSeg == InitSeg /\ [][NextSeg]_vars

\* deep nesting: a chunk of k one-byte frames.  FF F3 02 is a header of
\* bitrate index 0000 with the padding bit set, whose computed length is 1;
\* the byte after it, 0xFF, is its fourth byte and starts the next header
DeepStream(k) ==
    [i \in 1..(3 * k + 1) |-> IF i = 3 * k + 1 THEN 0 ELSE <<255, 243, 2>>[((i - 1) % 3) + 1]]

DeepStreams == {DeepStream(RecursionLimit - 1), DeepStream(RecursionLimit)}

DeepChunkLens(rem) == {n \in {300, 750, rem} : n >= 1 /\ n <= rem}

DeepFeedStep == \E n \in DeepChunkLens(Len(stream) - pos) : Feed(n)

InitDeep == InitWith(DeepStreams, {60})

NextDeep == DeepFeedStep \/ Done

SpecDeep == InitDeep /\ [][NextDeep]_vars

(***************************************************************************)
(* MPEGHeader.parse applied to one byte string                             *)
(***************************************************************************)
\* every value of the version, layer, protection, bitrate, sampling rate,
\* padding and emphasis fields, under a matching and under a broken sync word
HeaderBytes1 == {255, 254, 0}
HeaderBytes2 == (224..255) \cup {223, 0}
HeaderBytes3 == {2 * k : k \in 0..127}
HeaderBytes4 == {0, 1, 2, 3, 254, 255}

HeaderInputs ==
    {<<b1, b2, b3, b4>> : b1 \in HeaderBytes1, b2 \in HeaderBytes2,
                          b3 \in HeaderBytes3, b4 \in HeaderBytes4}
    \cup {<<>>, <<255>>, <<255, 243>>, <<255, 243, 20>>, <<255, 243, 20, 0, 0>>}

InitHeader ==
    /\ SourceIdle
    /\ hin \in HeaderInputs
    /\ hout = None
    /\ stream = <<>>
    /\ pos = 0
    /\ duration = 0
    /\ framer = NewFramer
    /\ buf = <<>>
    /\ buf_duration = 0
    /\ op = "init"
    /\ ncalls = 0
    /\ ndone = 0
    /\ nafter = 0
    /\ returned = <<>>
    /\ lastret = <<>>
    /\ depth = 0
    /\ raised = FALSE
    /\ completed = <<>>
    /\ ncompleted = 0
    /\ segs = <<>>
    /\ lastseg = <<>>

\* MPEGHeader.parse(hin)
Parse ==
    /\ op = "init"
    /\ hout' = parse(hin)
    /\ op' = "parse"
    /\ UNCHANGED <<hin, stream, pos, duration, framer, buf, buf_duration, ncalls, ndone,
                   nafter, returned, lastret, depth, raised, completed, ncompleted, segs,
                   lastseg>>
    /\ UNCHANGED srcvars

NextHeader == Parse

SpecHeader == InitHeader /\ [][NextHeader]_vars

(***************************************************************************)
(* Source.record: segment files under a sliding window.  A run of          *)
(* Source.segment ends either with the bytes of a segment or with          *)
(* socket.error (the source closed the connection); which one is the       *)
(* network's choice.  record is called with an integer window, as          *)
(* record.py does                                                          *)
(***************************************************************************)
MaxWindow == 3          \* windows 1..MaxWindow
MaxSegments == 8        \* segments saved in one run
MaxClosed == 2          \* times the source closes the connection in one run

Windows == 1..MaxWindow

\* the guard of prepare_segment under which the oldest file is removed
WindowOverfull(self_last, self_first, w) == (self_last - self_first) > w

WindowFull(self_last, self_first, w) == (self_last - self_first) >= w

\* the dictionary update_entry_file writes, as far as first and last go
Entry(self_first, self_last) == [first |-> self_first, last |-> self_last]

\* everything but the Source stays as constructed
SegmenterIdle ==
    /\ hin = <<>>
    /\ hout = None
    /\ stream = <<>>
    /\ pos = 0
    /\ duration = 0
    /\ framer = NewFramer
    /\ buf = <<>>
    /\ buf_duration = 0
    /\ op = "init"
    /\ ncalls = 0
    /\ ndone = 0
    /\ nafter = 0
    /\ returned = <<>>
    /\ lastret = <<>>
    /\ depth = 0
    /\ raised = FALSE
    /\ completed = <<>>
    /\ ncompleted = 0
    /\ segs = <<>>
    /\ lastseg = <<>>

segvars == <<hin, hout, stream, pos, duration, framer, buf, buf_duration, op, ncalls, ndone,
             nafter, returned, lastret, depth, raised, completed, ncompleted, segs, lastseg>>

InitSource ==
    /\ SegmenterIdle
    /\ first = 0
    /\ last = 0
    /\ files = {}
    /\ entry = None
    /\ window \in Windows
    /\ connected = FALSE
    /\ nclosed = 0

\* record: self.connect() and a new Segmenter
Connect ==
    /\ ~connected
    /\ connected' = TRUE
    /\ UNCHANGED <<first, last, files, entry, window, nclosed>>
    /\ UNCHANGED segvars

\* prepare_segment when self.segment() returns a segment: the file `last` is
\* saved, the file `first` removed if the window is full, the manifest
\* written, and last incremented
PrepareSegment ==
    /\ connected
    /\ last < MaxSegments
    /\ \E saved \in {files \cup {last}} :
           IF WindowFull(last, first, window)
           THEN /\ files' = saved \ {first}
                /\ first' = last - window + 1
           ELSE /\ files' = saved
                /\ first' = first
    /\ entry' = Entry(first', last)
    /\ last' = last + 1
    /\ UNCHANGED <<window, connected, nclosed>>
    /\ UNCHANGED segvars

\* prepare_segment when self.segment() raises socket.error: nothing is saved,
\* record closes the socket and starts over
SourceClosed ==
    /\ connected
    /\ nclosed < MaxClosed
    /\ connected' = FALSE
    /\ nclosed' = nclosed + 1
    /\ UNCHANGED <<first, last, files, entry, window>>
    /\ UNCHANGED segvars

NextSource == Connect \/ PrepareSegment \/ SourceClosed

SpecSource == InitSource /\ [][NextSource]_vars

(***************************************************************************)
(* Properties                                                              *)
(***************************************************************************)
\* the fields of a 4-byte input, read off its bytes
SyncField(h) == h[1] * 8 + h[2] \div 32
VersionField(h) == (h[2] \div 8) % 4
LayerField(h) == (h[2] \div 2) % 4
BitrateField(h) == h[3] \div 16
SamplingField(h) == (h[3] \div 4) % 4
EmphasisField(h) == h[4] % 4

ReservedCodepoint(h) ==
    \/ VersionField(h) = 1
    \/ LayerField(h) = 0
    \/ BitrateField(h) = 15
    \/ SamplingField(h) = 3
    \/ EmphasisField(h) = 2
    \/ SyncField(h) # 2047

\* C8: for every 4-byte input whose version field is 01, or layer field is 00,
\* or bitrate index is 1111, or sampling-rate index is 11, or emphasis field is
\* 10, or whose top 11 bits are not all ones, MPEGHeader.parse returns None.
C8_ReservedRejected ==
    (op = "parse" /\ Len(hin) = 4 /\ ReservedCodepoint(hin)) => hout = None

\* a header that is well formed but for its reserved emphasis field was parsed
C8_Witness ==
    /\ op = "parse"
    /\ hin = <<255, 243, 20, 2>>
    /\ hout = None

\* the frames of a list of segments, in order
Frames(segments) == Cat(segments)

\* the frames a fresh Framer returns when fed the byte string s as one chunk
OneChunk(s) == feed(NewFramer, s).ret

\* C1: for a stream of consecutive valid frames, the frames returned by all
\* Framer.feed calls together are the same for every split into chunks: once
\* the whole stream is fed they are those the single-chunk split returns.
C1_ChunkInvariance ==
    (stream \in FrameStreams /\ pos = Len(stream)) => returned = OneChunk(stream)

\* C2: a single Framer.feed call on a fresh Framer with the one chunk
\* H + payload (payload of length(H) - 4 bytes) returns exactly one frame, with
\* header parse(H) and length(H) bytes of data.
C2_RoundTrip ==
    (ncalls = 1 /\ pos = Len(stream) /\ stream = Frame(SubSeq(stream, 1, 4)))
        => /\ Len(lastret) = 1
           /\ lastret[1].header = parse(SubSeq(stream, 1, 4))
           /\ Len(lastret[1].data) = lastret[1].header.length

\* C3: after done(), every frame handed to the Segmenter (returned by
\* Framer.feed) is in exactly one returned segment: the segments returned, put
\* end to end, are the frames handed in.  (No partial frame is pending, so
\* done() returns accumulated frames only.)
C3_FrameConservation ==
    (op = "done" /\ framer.last_frame = None) => Frames(segs) = returned

\* the segments completed during the last Segmenter.feed call
LastCompleted == SubSeq(completed, Len(completed) - ncompleted + 1, Len(completed))

NonEmpty(segment) == segment # <<>>

\* C4: every (non-empty) segment completed during one Segmenter.feed call is
\* surfaced to the caller, in order; the call returns one list, so what it
\* surfaces is that list.
C4_AllSegmentsSurfaced ==
    op = "feed" =>
        SelectSeq(LastCompleted, NonEmpty) = IF lastseg = <<>> THEN <<>> ELSE <<lastseg>>

\* streams whose frames all have the duration of HdrA's
UniformStreams == {Repeat(Frame(HdrA), k) \o HdrA : k \in 1..MaxSegFrames}

\* C5: frames of one duration D under a budget B >= D, with n = floor(B/D): a
\* segment is completed every n input frames (the (jn+1)-th frame completes the
\* j-th segment), and the j-th completed segment is the j-th run of n
\* consecutive input frames.
C5_Cadence ==
    (stream \in UniformStreams /\ parse(HdrA).duration <= duration) =>
        LET n == duration \div parse(HdrA).duration
            k == Len(returned)
        IN  /\ Len(completed) = IF k = 0 THEN 0 ELSE (k - 1) \div n
            /\ \A j \in 1..Len(completed) :
                   completed[j] = SubSeq(returned, (j - 1) * n + 1, j * n)

\* C6: no completed segment is an empty list, and once done() has been called
\* (no partial frame pending) every frame handed in whose own duration exceeds
\* the budget has been returned as a segment of exactly that frame.
C6_OversizedOwnSegment ==
    /\ \A j \in 1..Len(completed) : completed[j] # <<>>
    /\ (op = "done" /\ framer.last_frame = None) =>
           \A i \in 1..Len(returned) :
               returned[i].header.duration > duration =>
                   \E j \in 1..Len(segs) : segs[j] = <<returned[i]>>

\* no 0xFF position of g starts a valid header when tail follows g
StartsNoHeader(g, tail) ==
    \A i \in 1..Len(g) : g[i] = 255 => parse(SubSeq(g \o tail, i, i + 3)) = None

\* C7: garbage between two valid frames F1 and F2, in which no 0xFF position
\* starts a valid header, does not change the frames recognized: however
\* F1 + garbage + F2 + (next header) is split, the frames returned are those
\* returned for F1 + F2 + (next header).
C7_GarbageTolerance ==
    \A g \in Garbage :
        (stream = WithGarbage(g) /\ StartsNoHeader(g, Frame(HdrA)) /\ pos = Len(stream))
            => returned = OneChunk(WithGarbage(<<>>))

\* C9: every Framer.feed / Segmenter.feed call returns normally.
C9_NeverRaises == ~raised

\* whether a frame holds all the bytes its header announces
Complete(frame) == Len(frame.data) = frame.header.length

\* C10 as stated: every frame of the segment done() returns is complete.
C10_DoneOnlyCompleteFrames ==
    op = "done" => \A i \in 1..Len(lastseg) : Complete(lastseg[i])

\* C10, amended: done() returns the accumulated complete frames followed by
\* the Framer's pending partial frame whenever one is pending; that last
\* element is the only incomplete frame it returns.
C10_DoneAppendsPartial ==
    op = "done" =>
        /\ \A i \in 1..Len(lastseg) :
               ~Complete(lastseg[i]) <=> (i = Len(lastseg) /\ framer.last_frame # None)
        /\ framer.last_frame # None =>
               (lastseg # <<>> /\ lastseg[Len(lastseg)] = framer.last_frame)

\* done() returned an accumulated frame and, after it, the pending partial frame
C10_Witness ==
    /\ op = "done"
    /\ framer.last_frame # None
    /\ Len(lastseg) = 2
    /\ Complete(lastseg[1])
    /\ ~Complete(lastseg[2])

\* the header a frame's first four data bytes parse to (None when it has fewer)
HeaderOf(frame) == parse(Slice(frame.data, 0, 4))

\* C11: every frame returned by Framer.feed has len(data) equal to its
\* header's length field, and its first 4 data bytes are the bytes that parsed
\* to that header.
C11_ReturnedFramesWellFormed ==
    \A i \in 1..Len(returned) :
        /\ Len(returned[i].data) = returned[i].header.length
        /\ Len(returned[i].data) >= 4
        /\ HeaderOf(returned[i]) = returned[i].header

\* C12: after any Framer.feed call returns, the Framer's output queue
\* (self.frames) is empty: every frame completed during the call is in the
\* list the call returned.
C12_QueueDrained == (op = "feed" /\ ~raised) => framer.frames = <<>>

\* the frames the Framer has recognized so far: those returned and those
\* still queued in self.frames
Recognized == returned \o framer.frames

\* C13: the bytes of a combined buffer in which no valid header was found are
\* kept for the next call, so F2 is recognized however F1 + garbage + F2 +
\* (next header) is split, also when F2's header straddles the end of a chunk
\* whose scan found no header.
C13_StraddlingHeaderRecognized ==
    (stream \in GarbageStreams /\ pos = Len(stream)) =>
        /\ Len(Recognized) = 2
        /\ \A i \in 1..2 : Recognized[i].data = Frame(HdrA)

\* C14: for every valid header the length field is
\* (12 * bitrate * 1000 / samplingrate + padding) * 4 when the layer is I and
\* 144 * bitrate * 1000 / samplingrate + padding when it is II or III
\* (integer division).
C14_LengthFormula ==
    (op = "parse" /\ hout # None) =>
        hout.length =
            IF hout.layer = "I"
            THEN ((12 * hout.bitrate * 1000) \div hout.samplingrate + hout.padding) * 4
            ELSE (144 * hout.bitrate * 1000) \div hout.samplingrate + hout.padding

\* a pending partial frame holds fewer bytes than its header announces
PendingShort ==
    framer.last_frame # None =>
        Len(framer.last_frame.data) < framer.last_frame.header.length

\* a feed call made while a frame is pending, r bytes short: a chunk of fewer
\* than r bytes is added to the pending frame and nothing is recognized; a
\* chunk of r bytes or more completes it with its first r bytes, the completed
\* frame is the next frame recognized, and the slot is cleared (when it is
\* taken again, it is by a frame found in the bytes after those r)
PromotionStep ==
    (framer.last_frame # None /\ pos' > pos) =>
        LET old == framer.last_frame
            r == old.header.length - Len(old.data)
            n == pos' - pos
            chunk == SubSeq(stream, pos + 1, pos')
            before == returned \o framer.frames
            after == returned' \o framer'.frames
        IN  IF n < r
            THEN /\ framer'.last_frame = [old EXCEPT !.data = @ \o chunk]
                 /\ after = before
            ELSE /\ Len(after) > Len(before)
                 /\ after[Len(before) + 1] = [old EXCEPT !.data = @ \o SubSeq(chunk, 1, r)]
                 /\ \/ framer'.last_frame = None
                    \/ Len(framer'.last_frame.data) <= n - r

\* C15: between Framer.feed calls there is at most one pending partial frame
\* (the slot last_frame), the bytes collected for it are fewer than its
\* header's length, and it is promoted to a complete frame exactly when the
\* collected bytes reach that length, the slot being cleared.
C15_PendingPartial == []PendingShort /\ [][PromotionStep]_vars

\* the second frame of a two-frame stream was completed from the partial slot
\* by the call that fed the stream's last bytes
C15_Witness ==
    /\ stream = Repeat(Frame(HdrA), 2)
    /\ pos = Len(stream)
    /\ Len(returned) = 1
    /\ framer.frames = <<MPEGFrame(parse(HdrA), Frame(HdrA))>>
    /\ framer.last_frame = None

\* the summed duration of a list of frames
RECURSIVE SumDuration(_)
SumDuration(frames) ==
    IF frames = <<>> THEN 0
    ELSE Head(frames).header.duration + SumDuration(Tail(frames))

\* C16: provided every frame's own duration is at most the budget, the summed
\* duration of the frames of every segment completed or returned by
\* Segmenter.feed, and of the frames accumulated in Segmenter.buf, does not
\* exceed the budget.
C16_SegmentWithinBudget ==
    (\A i \in 1..Len(returned) : returned[i].header.duration <= duration) =>
        /\ SumDuration(buf) <= duration
        /\ \A j \in 1..Len(completed) : SumDuration(completed[j]) <= duration
        /\ op = "feed" => SumDuration(lastseg) <= duration

\* Segmenter.feed returned a segment of two frames that fill the budget exactly
C16_Witness ==
    /\ op = "feed"
    /\ Len(lastseg) = 2
    /\ SumDuration(lastseg) = duration
    /\ \A i \in 1..Len(returned) : returned[i].header.duration <= duration

\* C17: the running total buf_duration is the sum of the durations of the
\* frames in buf; it is zero whenever buf has been reset to empty by emitting
\* a segment or by done().
C17_RunningTotal == buf_duration = SumDuration(buf)

\* C19: every header MPEGHeader.parse returns as valid has a non-zero bitrate
\* and a length of at least 4 bytes.
C19_ValidHeaderMinLength ==
    (op = "parse" /\ hout # None) => (hout.bitrate # 0 /\ hout.length >= 4)

\* the bytes a Framer.feed invocation has at hand
Measure(c) == Len(c.self.buf) + Len(c.chunk)

\* the run of invocations from c on ends, by a return or a raise, within n
\* invocations, and every nested self.feed(rest) in it is made with fewer
\* bytes at hand than the invocation that makes it
RECURSIVE Shrinks(_, _)
Shrinks(c, n) ==
    IF c.status # "call" THEN TRUE
    ELSE IF n = 0 THEN FALSE
    ELSE \E d \in {feed_level(c)} :
             /\ d.status = "call" => Measure(d) < Measure(c)
             /\ Shrinks(d, n - 1)

\* the 0xFF positions of a byte string, counted from 0
Positions(chunk) == {i \in 0..(Len(chunk) - 1) : chunk[i + 1] = 255}

\* a Framer.feed call terminates: the scan of parse_frame goes from a 0xFF
\* position to a strictly later one or ends, every nested call has fewer
\* bytes at hand, and the call has returned or raised after at most as many
\* invocations as it had bytes at hand, plus one
FeedTerminates ==
    pos' > pos =>
        LET chunk == SubSeq(stream, pos + 1, pos')
            combined == framer.buf \o chunk
            c == [self |-> framer, chunk |-> chunk, depth |-> 1, status |-> "call",
                  ret |-> <<>>]
        IN  /\ \A i \in Positions(combined) :
                   \E j \in {Find(combined, i + 1)} : j = -1 \/ j > i
            /\ Shrinks(c, Measure(c) + 1)

\* C20: every Framer.feed call terminates, for every chunk and every reachable
\* Framer state: each scan step of parse_frame moves to a strictly later 0xFF
\* position, and each recursive feed(rest) is made on a strictly shorter byte
\* string.
C20_FeedTerminates == [][FeedTerminates]_vars

\* one call was fed F1, a rejected header of length 0, F2 and the next header,
\* and returned after nested calls
C20_Witness ==
    /\ op = "feed"
    /\ stream = WithGarbage(ZeroLengthHeader)
    /\ pos = Len(stream)
    /\ ncalls = 1
    /\ depth >= 3
    /\ ~raised

\* after a completed step the files present are those the manifest names, at
\* most `window` of them, and the `window` most recent once that many are saved
WindowKept ==
    entry # None =>
        /\ entry = Entry(first, last - 1)
        /\ files = entry.first..entry.last
        /\ Cardinality(files) <= window
        /\ last >= window => files = (last - window)..(last - 1)

\* a prepare_segment step deletes at most one file, the oldest; nothing else
\* touches the files
DeletesOldest ==
    IF last' # last
    THEN LET gone == (files \cup {last}) \ files'
         IN  /\ Cardinality(gone) <= 1
             /\ \A f \in gone : \A g \in files \cup {last} : f <= g
    ELSE files' = files

\* C18: with a window W >= 1, after every completed prepare_segment step,
\* across steps and reconnects, the segment files present are exactly those
\* numbered first..last as written to the manifest, at most W of them, the W
\* most recent once W have been saved; each step deletes at most one file,
\* the oldest.
C18_SlidingWindow == []WindowKept /\ [][DeletesOldest]_vars

\* with a window of 2, after a reconnect, the window has slid past segment 1
C18_Witness ==
    /\ window = 2
    /\ nclosed >= 1
    /\ entry # None
    /\ entry.first >= 2
    /\ files = {entry.first, entry.last}

\* the first position p >= from at which the bytes fed so far hold `data`
\* (stream[p .. p + Len(data) - 1], all within the first pos bytes), 0 if none
FirstMatch(data, from) ==
    LET range == from..(pos - Len(data) + 1)
        at(p) == SubSeq(stream, p, p + Len(data) - 1) = data
    IN  IF \E p \in range : at(p)
        THEN CHOOSE p \in range : at(p) /\ \A q \in from..(p - 1) : ~at(q)
        ELSE 0

\* the frames, in order, occupy byte ranges of the bytes fed so far that start
\* at `from` or later, each range after the one before (taking for each frame
\* the earliest range decides whether such ranges exist)
RECURSIVE InStreamOrder(_, _)
InStreamOrder(frames, from) ==
    IF frames = <<>> THEN TRUE
    ELSE \E p \in {FirstMatch(Head(frames).data, from)} :
             /\ p # 0
             /\ InStreamOrder(Tail(frames), p + Len(Head(frames).data))

\* C21: the frames returned by the Framer.feed calls so far, in return order,
\* occupy strictly increasing, non-overlapping byte ranges of the input fed so
\* far, and each frame's data is the input bytes of its range; so a frame
\* completed from the pending slot precedes the frames found after it in the
\* same chunk.
C21_StreamOrder == InStreamOrder(returned, 1)

\* the second call returned the 48-byte frame begun by the first call and,
\* after it, the 49-byte frame found in the same chunk
C21_Witness ==
    /\ stream = Frame(HdrA) \o Frame(HdrP) \o HdrA
    /\ pos = Len(stream)
    /\ ncalls = 2
    /\ depth = 2
    /\ lastret = <<MPEGFrame(parse(HdrA), Frame(HdrA)), MPEGFrame(parse(HdrP), Frame(HdrP))>>

=============================================================================
